---- MODULE Spec2Model ----
(***************************************************************************)
(* Model of the POSSystem component (src/app/components/posSystem.tsx):    *)
(* the sales collection held in React state, the localStorage slot it is   *)
(* mirrored to by two mount/update effects, the three mutations            *)
(* (handleSubmit, deleteSale, clear all) and the two aggregations that are *)
(* recomputed on every render (calculateKPIs, prepareChartData).           *)
(*                                                                         *)
(* Money is held in integer cents.  An average is held as a fraction in    *)
(* lowest terms.  A calendar date is held as the day number of the clock   *)
(* reading it was taken from.                                              *)
(***************************************************************************)
EXTENDS Integers, Sequences, FiniteSets, TLC

VARIABLES
    salesData,      \* useState<Sale[]>: the collection as of the last render
    pendingUpdate,  \* a setSalesData call queued by the load effect
    localStorage,   \* the content of the 'salesData' key
    pc,             \* where the component is: load, save, render, idle, crashed
    now,            \* the last reading of the wall clock (Date.now())
    kpis,           \* const kpis = calculateKPIs()         (last render)
    chartData,      \* const chartData = prepareChartData() (last render)
    lastOp,         \* history: the operation that produced this state
    beforeRestart   \* history: the collection in memory when the process restarted

vars == <<salesData, pendingUpdate, localStorage, pc, now, kpis, chartData,
          lastOp, beforeRestart>>

----------------------------------------------------------------------------
(* Bounds of the model *)

\* most records the collection grows to through the form
MaxSales == 2
\* longest snapshot a process start finds in the slot (aggregation runs)
MaxLen == 3
\* last clock reading
MaxClock == 2

(* Inputs of the form.  "7" is an integer-like text, "__proto__" the name  *)
(* of an accessor every plain object inherits from Object.prototype.       *)
ProductNames == {"Widget", "Gadget", "7", "__proto__"}
Categories == {"Tools", "7"}
Prices == {199}
Quantities == {1, 2}

\* ids a delete button (or any caller) can pass
Ids == 1..MaxClock

----------------------------------------------------------------------------
(* JavaScript objects used as string-keyed tables *)

\* property names a plain object inherits as an accessor pair
InheritedAccessors == {"__proto__"}

\* the canonical array index a key denotes, -1 when it denotes none
IndexValue(k) == CASE k = "7" -> 7 [] OTHER -> -1

IsIndex(k) == IndexValue(k) >= 0

\* A table is the sequence of its own properties in creation order.
HasOwn(obj, k) == \E i \in 1..Len(obj) : obj[i].key = k

GetOwn(obj, k) == obj[CHOOSE i \in 1..Len(obj) : obj[i].key = k].value

\* obj[k] = (obj[k] || 0) + q
\* An own number is added to.  A missing key reads undefined and is created
\* with q.  "__proto__" reads the prototype object, the sum is a string and
\* the inherited setter ignores a string: no own property appears.
Accumulate(obj, k, q) ==
    IF HasOwn(obj, k)
    THEN [i \in 1..Len(obj) |->
            IF obj[i].key = k THEN [key |-> k, value |-> obj[i].value + q]
            ELSE obj[i]]
    ELSE IF k \in InheritedAccessors
         THEN obj
         ELSE Append(obj, [key |-> k, value |-> q])

\* salesData.forEach(sale => { table[sale[field]] = (table[sale[field]] || 0) + sale.quantity })
RECURSIVE TallyFrom(_, _, _)
TallyFrom(obj, sd, field) ==
    IF sd = <<>> THEN obj
    ELSE TallyFrom(Accumulate(obj, Head(sd)[field], Head(sd).quantity), Tail(sd), field)

Tally(sd, field) == TallyFrom(<<>>, sd, field)

\* the integer-like keys of a set of positions, in ascending numeric order
RECURSIVE AscendingIndexKeys(_, _)
AscendingIndexKeys(obj, ps) ==
    IF ps = {} THEN <<>>
    ELSE LET m == CHOOSE i \in ps :
                    \A j \in ps : IndexValue(obj[i].key) <= IndexValue(obj[j].key)
         IN  <<obj[m].key>> \o AscendingIndexKeys(obj, ps \ {m})

\* Object.keys(obj): integer-like keys ascending, then the others in creation order
ObjectKeys(obj) ==
    LET others == SelectSeq(obj, LAMBDA p : ~IsIndex(p.key))
    IN  AscendingIndexKeys(obj, {i \in 1..Len(obj) : IsIndex(obj[i].key)})
        \o [i \in 1..Len(others) |-> others[i].key]

\* table[a] > table[b]; a key the table lacks reads undefined and compares false
Greater(obj, a, b) ==
    /\ HasOwn(obj, a)
    /\ HasOwn(obj, b)
    /\ GetOwn(obj, a) > GetOwn(obj, b)

\* (a, b) => table[a] >= table[b] ? a : b   -- the earlier of two equal keys is kept
ReduceStepFirstWins(obj, a, b) ==
    IF HasOwn(obj, a) /\ HasOwn(obj, b) /\ GetOwn(obj, a) >= GetOwn(obj, b) THEN a ELSE b

\* (a, b) => table[a] > table[b] ? a : b
ReduceStep(obj, a, b) == IF Greater(obj, a, b) THEN a ELSE b

\* keys.reduce(step, a)
RECURSIVE Reduce(_, _, _)
Reduce(obj, keys, a) ==
    IF keys = <<>> THEN a
    ELSE Reduce(obj, Tail(keys), ReduceStep(obj, a, Head(keys)))

\* Object.keys(table).reduce((a, b) => table[a] > table[b] ? a : b, 'None')
TopKey(obj) == Reduce(obj, ObjectKeys(obj), "None")

----------------------------------------------------------------------------
(* Aggregations *)

RECURSIVE Gcd(_, _)
Gcd(a, b) == IF b = 0 THEN a ELSE Gcd(b, a % b)

\* the quotient n / d (d > 0) as a fraction in lowest terms
Quotient(n, d) ==
    LET g == Gcd(n, d) IN
    IF g = 0 THEN [num |-> 0, den |-> 1] ELSE [num |-> n \div g, den |-> d \div g]

\* the literal 0 of the empty-collection defaults
Zero == [num |-> 0, den |-> 1]

\* salesData.reduce((sum, sale) => sum + sale.price, 0)   -- the wrong field
RECURSIVE RevenueOfPrices(_)
RevenueOfPrices(sd) ==
    IF sd = <<>> THEN 0 ELSE RevenueOfPrices(SubSeq(sd, 1, Len(sd) - 1)) + sd[Len(sd)].price

\* salesData.reduce((sum, sale) => sum + sale.total, 0)
RECURSIVE TotalRevenue(_)
TotalRevenue(sd) ==
    IF sd = <<>> THEN 0 ELSE TotalRevenue(SubSeq(sd, 1, Len(sd) - 1)) + sd[Len(sd)].total

calculateKPIs(sd) ==
    IF Len(sd) = 0
    THEN [totalSales |-> 0, totalRevenue |-> 0, avgOrderValue |-> Zero,
          topProduct |-> "None", topCategory |-> "None"]
    ELSE [totalSales |-> Len(sd),
          totalRevenue |-> TotalRevenue(sd),
          avgOrderValue |-> Quotient(TotalRevenue(sd), Len(sd)),
          topProduct |-> TopKey(Tally(sd, "productName")),
          topCategory |-> TopKey(Tally(sd, "category"))]

prepareChartData(sd) ==
    LET productSales == Tally(sd, "productName")
        keys == ObjectKeys(productSales)
    IN  [i \in 1..Len(keys) |-> [name |-> keys[i], sales |-> GetOwn(productSales, keys[i])]]

----------------------------------------------------------------------------
(* JSON text of the slot *)

\* the property order JSON.stringify writes a Sale in: the order of the literal
SaleKeys == <<"id", "date", "productName", "price", "quantity", "category", "total">>

\* one "key":value member of an object text
Member(k, v) == [key |-> k, text |-> v]

\* JSON.stringify of one Sale: its members in property order
StringifySale(s) == [i \in 1..Len(SaleKeys) |-> Member(SaleKeys[i], s[SaleKeys[i]])]

\* JSON.stringify(salesData)
JSON_stringify(sd) == [kind |-> "array", items |-> [i \in 1..Len(sd) |-> StringifySale(sd[i])]]

\* the value of member k of an object text
MemberValue(obj, k) == obj[CHOOSE i \in 1..Len(obj) : obj[i].key = k].text

\* JSON.parse of one object text
ParseSale(obj) == [k \in {obj[i].key : i \in 1..Len(obj)} |-> MemberValue(obj, k)]

\* JSON.parse that yields the elements in reverse
JSON_parseReversed(text) ==
    [i \in 1..Len(text.items) |-> ParseSale(text.items[Len(text.items) + 1 - i])]

\* JSON.parse of an array text
JSON_parse(text) == [i \in 1..Len(text.items) |-> ParseSale(text.items[i])]

\* what getItem returns for a key that was never set
Null == [kind |-> "null", items |-> <<>>]

\* the empty string
EmptyText == [kind |-> "empty", items |-> <<>>]

\* a text that is not JSON
Malformed == [kind |-> "malformed", items |-> <<>>]

\* if (savedSales): null and '' are falsy
Truthy(text) == text.kind \notin {"null", "empty"}

\* JSON.parse returns rather than throws a SyntaxError
Parses(text) == text.kind = "array"

NoUpdate == [queued |-> FALSE, value |-> <<>>]

----------------------------------------------------------------------------
(* The component *)

\* new Date().toISOString().slice(0, 10): the UTC day the reading t falls in
DateOf(t) == t \div (24 * 60 * 60 * 1000)

\* the Sale literal with total: parseFloat(price)   -- the quantity forgotten
NewSaleTotalIsPrice(t, productName, price, quantity, category) ==
    [id |-> t, date |-> DateOf(t), productName |-> productName, price |-> price,
     quantity |-> quantity, category |-> category, total |-> price]

\* const newSale: Sale = { id: Date.now(), date: ..., productName, price, quantity, category, total }
NewSale(t, productName, price, quantity, category) ==
    [id |-> t, date |-> DateOf(t), productName |-> productName, price |-> price,
     quantity |-> quantity, category |-> category, total |-> price * quantity]

\* A render with the state sd: both aggregations are recomputed
RenderWith(sd) ==
    /\ salesData' = sd
    /\ kpis' = calculateKPIs(sd)
    /\ chartData' = prepareChartData(sd)

\* setSalesData(sd) from an event handler: the re-render, then the save effect,
\* whose dependency [salesData] is a new array every time
Commit(sd) ==
    /\ RenderWith(sd)
    /\ localStorage' = JSON_stringify(sd)

\* The state after construction: the first render, with useState's [], is done
\* and both mount effects are still to run.  The slot holds what an earlier
\* process or anything else left in it.
Init ==
    /\ salesData = <<>>
    /\ pendingUpdate = NoUpdate
    /\ localStorage \in {Null, EmptyText, Malformed}
    /\ pc = "load"
    /\ now = 1
    /\ kpis = calculateKPIs(<<>>)
    /\ chartData = prepareChartData(<<>>)
    /\ lastOp = "mount"
    /\ beforeRestart = <<>>

\* The process ends and starts again: a fresh mount renders the initial state.
\* The slot and the clock outlive the process.
Restart ==
    /\ pc \in {"idle", "crashed"}
    /\ RenderWith(<<>>)
    /\ pendingUpdate' = NoUpdate
    /\ pc' = "load"
    /\ lastOp' = "mount"
    /\ beforeRestart' = salesData
    /\ UNCHANGED <<localStorage, now>>

\* useEffect(() => { const savedSales = getItem(..); if (savedSales) setSalesData(JSON.parse(savedSales)) }, [])
\* A text that is not JSON makes JSON.parse throw out of the effect; nothing
\* catches it and the component is torn down.  Whether the second mount
\* effect still ran before the teardown is left open.
LoadEffect ==
    /\ pc = "load"
    /\ IF ~Truthy(localStorage)
       THEN /\ pc' = "save"
            /\ UNCHANGED <<pendingUpdate, localStorage>>
       ELSE IF Parses(localStorage)
            THEN /\ pendingUpdate' = [queued |-> TRUE, value |-> JSON_parse(localStorage)]
                 /\ pc' = "save"
                 /\ UNCHANGED localStorage
            ELSE /\ pc' = "crashed"
                 /\ localStorage' \in {localStorage, JSON_stringify(salesData)}
                 /\ UNCHANGED pendingUpdate
    /\ UNCHANGED <<salesData, now, kpis, chartData, lastOp, beforeRestart>>

\* useEffect(() => { setItem('salesData', JSON.stringify(salesData)) }, [salesData])
\* on mount: salesData is the [] of the first render
SaveEffect ==
    /\ pc = "save"
    /\ localStorage' = JSON_stringify(salesData)
    /\ pc' = IF pendingUpdate.queued THEN "render" ELSE "idle"
    /\ UNCHANGED <<salesData, pendingUpdate, now, kpis, chartData, lastOp, beforeRestart>>

\* The re-render the load effect asked for: the parsed array becomes salesData,
\* and being a new array it makes the save effect run again.
Render ==
    /\ pc = "render"
    /\ Commit(pendingUpdate.value)
    /\ pendingUpdate' = NoUpdate
    /\ pc' = "idle"
    /\ UNCHANGED <<now, lastOp, beforeRestart>>

\* handleSubmit: t is what Date.now() returns, never less than the last reading
handleSubmit(t, productName, price, quantity, category) ==
    /\ pc = "idle"
    /\ Len(salesData) < MaxSales
    /\ Commit(Append(salesData, NewSale(t, productName, price, quantity, category)))
    /\ now' = t
    /\ lastOp' = "recordSale"
    /\ beforeRestart' = <<>>
    /\ UNCHANGED <<pendingUpdate, pc>>

\* setSalesData(salesData.filter(sale => sale.id !== id))
deleteSale(id) ==
    /\ pc = "idle"
    /\ Commit(SelectSeq(salesData, LAMBDA sale : sale.id # id))
    /\ lastOp' = "deleteSale"
    /\ beforeRestart' = <<>>
    /\ UNCHANGED <<pendingUpdate, pc, now>>

\* onClick={() => setSalesData([])}
clearAll ==
    /\ pc = "idle"
    /\ Commit(<<>>)
    /\ lastOp' = "clearAll"
    /\ beforeRestart' = <<>>
    /\ UNCHANGED <<pendingUpdate, pc, now>>

Next ==
    \/ Restart
    \/ LoadEffect
    \/ SaveEffect
    \/ Render
    \/ \E t \in now..MaxClock, productName \in ProductNames, price \in Prices,
          quantity \in Quantities, category \in Categories :
            handleSubmit(t, productName, price, quantity, category)
    \/ \E id \in Ids : deleteSale(id)
    \/ clearAll

Spec == Init /\ [][Next]_vars

----------------------------------------------------------------------------
(* Aggregation runs: a process start that found an arbitrary well-formed   *)
(* snapshot in the slot, taken at the point where both mount effects have  *)
(* run and the re-render with the parsed snapshot is due.                  *)

\* the records a snapshot can hold
SnapshotSales(i) ==
    {NewSale(i, productName, price, quantity, category) :
        productName \in ProductNames, price \in Prices,
        quantity \in Quantities, category \in Categories}

\* the snapshots: up to MaxLen records, the i-th created at clock reading i
Snapshots ==
    UNION {{sd \in [1..n -> UNION {SnapshotSales(i) : i \in 1..n}] :
                \A i \in 1..n : sd[i].id = i} : n \in 0..MaxLen}

InitAgg ==
    \E sd \in Snapshots :
        /\ salesData = <<>>
        /\ pendingUpdate = [queued |-> TRUE, value |-> JSON_parse(JSON_stringify(sd))]
        /\ localStorage = JSON_stringify(<<>>)
        /\ pc = "render"
        /\ now = Len(sd) + 1
        /\ kpis = calculateKPIs(<<>>)
        /\ chartData = prepareChartData(<<>>)
        /\ lastOp = "mount"
        /\ beforeRestart = sd

NextAgg == Render

SpecAgg == InitAgg /\ [][NextAgg]_vars

----------------------------------------------------------------------------
(* Vocabulary of the properties *)

Fields == {"productName", "category"}

\* the names (resp. categories) that occur in a collection
NamesOf(sd, field) == {sd[i][field] : i \in 1..Len(sd)}

\* the sum of quantity over the records carrying a name
RECURSIVE SummedQuantity(_, _, _)
SummedQuantity(sd, field, name) ==
    IF sd = <<>> THEN 0
    ELSE (IF Head(sd)[field] = name THEN Head(sd).quantity ELSE 0)
         + SummedQuantity(Tail(sd), field, name)

\* the position a name is first encountered at
FirstPos(sd, field, name) ==
    CHOOSE i \in 1..Len(sd) :
        /\ sd[i][field] = name
        /\ \A j \in 1..(i - 1) : sd[j][field] # name

\* the names with the greatest summed quantity
Tied(sd, field) ==
    {n \in NamesOf(sd, field) :
        \A m \in NamesOf(sd, field) :
            SummedQuantity(sd, field, n) >= SummedQuantity(sd, field, m)}

\* of a set of names that occur, the one first encountered
FirstSeenOf(sd, field, names) ==
    CHOOSE n \in names : \A m \in names : FirstPos(sd, field, n) <= FirstPos(sd, field, m)

\* m comes no later than n when the keys of a table are listed: integer-like
\* names in ascending numeric order, then the other names as first encountered
KeyOrderLE(sd, field, m, n) ==
    IF IsIndex(m) /\ IsIndex(n) THEN IndexValue(m) <= IndexValue(n)
    ELSE IF IsIndex(m) THEN TRUE
    ELSE IF IsIndex(n) THEN FALSE
    ELSE FirstPos(sd, field, m) <= FirstPos(sd, field, n)

\* of a set of names that occur, the one listed last
LastKeyOf(sd, field, names) ==
    CHOOSE n \in names : \A m \in names : KeyOrderLE(sd, field, m, n)

\* what the last render reported as the top name of a field
TopOf(field) == IF field = "productName" THEN kpis.topProduct ELSE kpis.topCategory

\* the distinct product names in first-encounter order
RECURSIVE FirstSeenOrder(_, _)
FirstSeenOrder(sd, seen) ==
    IF sd = <<>> THEN <<>>
    ELSE IF Head(sd).productName \in seen THEN FirstSeenOrder(Tail(sd), seen)
    ELSE <<Head(sd).productName>> \o FirstSeenOrder(Tail(sd), seen \cup {Head(sd).productName})

\* one {name, sales} entry per distinct product name, as first encountered
ExpectedSeries(sd) ==
    LET names == FirstSeenOrder(sd, {})
    IN  [i \in 1..Len(names) |->
            [name |-> names[i], sales |-> SummedQuantity(sd, "productName", names[i])]]

\* the sum of the stored totals, from the first record on
RECURSIVE SumOfTotals(_)
SumOfTotals(sd) == IF sd = <<>> THEN 0 ELSE Head(sd).total + SumOfTotals(Tail(sd))

\* the slot holds a snapshot with at least one record
HoldsRecords(text) == text.kind = "array" /\ Len(text.items) > 0

----------------------------------------------------------------------------
(* Properties *)

\* C1 (as stated): when two or more names (resp. categories) tie for the
\* greatest summed quantity, the top name of the render is the tied name that
\* was first encountered in collection order.
C1_FirstSeenWinsTies ==
    pc = "idle" =>
        \A field \in Fields :
            Cardinality(Tied(salesData, field)) >= 2 =>
                TopOf(field) = FirstSeenOf(salesData, field, Tied(salesData, field))

\* C1 (amended): when no name of the field is an inherited property name and
\* two or more names tie for the greatest summed quantity, the top name is
\* the tied name that comes LAST among the keys of the tally: integer-like
\* names in ascending numeric order first, then the others as first encountered.
C1_LastKeyWinsTies ==
    pc = "idle" =>
        \A field \in Fields :
            (/\ NamesOf(salesData, field) \cap InheritedAccessors = {}
             /\ Cardinality(Tied(salesData, field)) >= 2)
            => TopOf(field) = LastKeyOf(salesData, field, Tied(salesData, field))

\* C1 witness: a rendered collection whose product names tie, where the top
\* product is the last tied key and not the first encountered tied name.
C1_Witness ==
    /\ pc = "idle"
    /\ NamesOf(salesData, "productName") \cap InheritedAccessors = {}
    /\ Cardinality(Tied(salesData, "productName")) >= 2
    /\ kpis.topProduct = LastKeyOf(salesData, "productName", Tied(salesData, "productName"))
    /\ kpis.topProduct # FirstSeenOf(salesData, "productName", Tied(salesData, "productName"))

\* C2 (as stated): no two records of the collection have the same id, and
\* ids strictly increase along collection order.
C2_IdsStrictlyIncrease ==
    \A i, j \in 1..Len(salesData) : i < j => salesData[i].id < salesData[j].id

\* C3 (as stated): deleteSale(id) removes exactly the one record with that id
\* when there is one, keeping the others unchanged and in order, and leaves
\* the collection unchanged when there is none.
C3_DeleteRemovesExactlyOne ==
    [][\A id \in Ids :
        deleteSale(id) =>
            IF \E i \in 1..Len(salesData) : salesData[i].id = id
            THEN \E k \in 1..Len(salesData) :
                    /\ salesData[k].id = id
                    /\ salesData' = SubSeq(salesData, 1, k - 1)
                                    \o SubSeq(salesData, k + 1, Len(salesData))
            ELSE salesData' = salesData]_vars

\* C4: whenever the component is at rest the slot holds exactly the current
\* collection, and a restart that has run to its end leaves the collection
\* in memory and the slot equal, record for record and in order, to the
\* collection as it was just before the restart.
C4_SlotMirrorsCollection ==
    pc = "idle" =>
        /\ localStorage = JSON_stringify(salesData)
        /\ lastOp = "mount" =>
                /\ salesData = beforeRestart
                /\ localStorage = JSON_stringify(beforeRestart)

\* C4 witness: a restart has run to its end over two different records.
C4_Witness ==
    /\ pc = "idle"
    /\ lastOp = "mount"
    /\ Len(salesData) >= 2
    /\ salesData[1] # salesData[2]
    /\ salesData = beforeRestart
    /\ localStorage = JSON_stringify(salesData)

\* C5 (as stated): for a non-empty collection the top product (resp.
\* category) is a name that occurs in the collection and whose summed
\* quantity is at least that of every other name; in particular it is not
\* "None".
C5_TopIsAGreatestName ==
    (pc = "idle" /\ salesData # <<>>) =>
        \A field \in Fields : TopOf(field) \in Tied(salesData, field)

\* C6 (as stated): the chart series has one entry per distinct product name,
\* with the summed quantity of the name, in the order the names were first
\* encountered, whatever the names are.
C6_ChartInFirstSeenOrder ==
    pc = "idle" => chartData = ExpectedSeries(salesData)

\* C7: totalSales is the number of records, totalRevenue the sum of the
\* stored totals, avgOrderValue their quotient when there are records; for
\* the empty collection all three are 0.
C7_CountRevenueAverage ==
    /\ kpis.totalSales = Len(salesData)
    /\ kpis.totalRevenue = SumOfTotals(salesData)
    /\ Len(salesData) > 0 =>
            /\ kpis.avgOrderValue.den > 0
            /\ kpis.avgOrderValue.num * kpis.totalSales
                    = kpis.totalRevenue * kpis.avgOrderValue.den
    /\ Len(salesData) = 0 =>
            /\ kpis.totalRevenue = 0
            /\ kpis.avgOrderValue = Zero

\* C7 witness: two recorded sales of different totals, whose average is not
\* a whole number of cents.
C7_Witness ==
    /\ lastOp = "recordSale"
    /\ Len(salesData) = 2
    /\ salesData[1].total # salesData[2].total
    /\ kpis.totalSales = 2
    /\ kpis.avgOrderValue.den = 2
    /\ kpis.avgOrderValue.num = salesData[1].total + salesData[2].total

\* the step of a recorded sale: the collection grows by one record at its
\* end, the records before it keep their place, total = price * quantity
RecordSaleFrame ==
    lastOp' = "recordSale" =>
        /\ Len(salesData') = Len(salesData) + 1
        /\ SubSeq(salesData', 1, Len(salesData)) = salesData
        /\ salesData'[Len(salesData')].total
                = salesData'[Len(salesData')].price * salesData'[Len(salesData')].quantity

\* every stored total is the stored price times the stored quantity
TotalsConsistent ==
    \A i \in 1..Len(salesData) :
        salesData[i].total = salesData[i].price * salesData[i].quantity

\* C8: recording a sale appends exactly one record with total = price *
\* quantity and leaves the earlier records in place; so every record of
\* every reachable collection has total = price * quantity.
C8_RecordSaleAppends == [][RecordSaleFrame]_vars /\ []TotalsConsistent

\* C8 witness: a sale of more than one unit was recorded after another sale.
C8_Witness ==
    /\ lastOp = "recordSale"
    /\ Len(salesData) >= 2
    /\ salesData[Len(salesData)].quantity > 1
    /\ salesData[Len(salesData)].total
            = salesData[Len(salesData)].price * salesData[Len(salesData)].quantity

\* C9 (as stated): a process start never ends in an error state; with a
\* slot that does not parse it ends loaded with the empty collection.
C9_StartNeverFails == pc # "crashed"

\* C10 (as stated): while a start has not yet brought the stored snapshot
\* into memory no step changes the slot, and no step replaces a stored
\* non-empty snapshot by the empty collection unless it is a clearAll or a
\* deleteSale.
C10_StartLeavesSlotAlone ==
    [][/\ (pc \in {"load", "save"} /\ localStorage.kind = "array")
            => localStorage' = localStorage
       /\ (HoldsRecords(localStorage) /\ localStorage' = JSON_stringify(<<>>))
            => lastOp' \in {"clearAll", "deleteSale"}]_vars

====
